---------------------------- MODULE Spec2Model ----------------------------
(***************************************************************************)
(* Session monitor (AuthProvider) of the campus portal, the `users`        *)
(* collection of the document store it bootstraps profiles in, the admin   *)
(* console operations that write the same collection, the conditions the   *)
(* pages show their create and delete controls under, and the operations   *)
(* of the discussions page on its three collections.                       *)
(*                                                                         *)
(* One step of the model is one uninterrupted run of JavaScript on the     *)
(* event loop: the synchronous part of a call up to its first `await`, or  *)
(* the arrival of the response of an awaited external call together with   *)
(* the continuation that follows it up to the next `await`.  The store     *)
(* applies a request when its response is produced.                        *)
(***************************************************************************)
EXTENDS Integers, Sequences, FiniteSets, TLC

(***************************************************************************)
(* Bounds of the model                                                     *)
(***************************************************************************)
MaxCalls == 3        \* operations the users and the admin start, in total

Sessions == {"s1", "s2"}
Identities == {"u1", "u2"}
NoUser == "null"

\* The provider's User object of an identity (read-only for this system).
Identity(uid) ==
    IF uid = "u1"
    THEN [uid |-> "u1", displayName |-> "Ann", email |-> "ann@x.edu", photoURL |-> "null"]
    ELSE [uid |-> "u2", displayName |-> "Bob", email |-> "bob@x.edu", photoURL |-> "p2.png"]

\* userProfile === null
Null == [isNull |-> TRUE]

\* Arguments the consumers pass to updateUserProfile.
Partials ==
    { [bio |-> "x"],
      [displayName |-> "Zed"] }

VARIABLES
    users,        \* store, collection `users`: uid -> {} (absent) or {document}
    clock,        \* source of new Date().toISOString()
    active,       \* browser sessions that run the application
    authUser,     \* identity provider: auth.currentUser of each browser
    events,       \* identity provider: state changes not yet delivered
    currentUser,  \* AuthProvider state
    userProfile,  \* AuthProvider state
    loading,      \* AuthProvider state
    handlers,     \* onAuthStateChanged callbacks suspended at an await
    signIn,       \* signInWithGoogle call of the session, if any
    updates,      \* updateUserProfile calls suspended at their setDoc, each
                  \* with the document the store held when it was called
    calls,        \* operations started so far
    seen,         \* identities that have signed in, now or in an earlier run
    granted,      \* identities a toggle made admin and no sign-in has read since
    forumPosts,   \* store, collection `forumPosts`
    forumComments, \* store, collection `forumComments`
    postLikes,    \* store, collection `postLikes`
    nextId,       \* source of the ids addDoc generates
    listed,       \* posts and comments a render of the discussions page has shown
    forumOps,     \* discussions page operations suspended at an await
    last          \* what the last step did: operation, toasts, exceptions

\* state of the discussions page and its collections
forumVars == <<forumPosts, forumComments, postLikes, nextId, listed, forumOps>>

\* state of the session monitor and the `users` collection
authVars == <<users, clock, active, authUser, events, currentUser, userProfile,
              loading, handlers, signIn, updates, seen, granted>>

vars == <<users, clock, active, authUser, events, currentUser, userProfile,
          loading, handlers, signIn, updates, calls, seen, granted, last,
          forumPosts, forumComments, postLikes, nextId, listed, forumOps>>

(***************************************************************************)
(* Documents and the store operations                                      *)
(***************************************************************************)
RemoveAt(seq, i) == SubSeq(seq, 1, i - 1) \o SubSeq(seq, i + 1, Len(seq))

\* { ...userProfile, ...data }
Spread(profile, data) ==
    IF profile = Null
    THEN data
    ELSE [f \in (DOMAIN profile) \cup (DOMAIN data) |->
            IF f \in DOMAIN data THEN data[f] ELSE profile[f]]

\* getDoc: snapshot.exists() / snapshot.data()
Exists(store, uid) == store[uid] # {}
Data(store, uid) == CHOOSE d \in store[uid] : TRUE

\* setDoc(ref, value): the document becomes exactly `value`
SetDoc(store, uid, value) == [store EXCEPT ![uid] = {value}]

\* setDoc(ref, value, {merge: true}): the fields of `value` are written,
\* the other fields of an existing document are kept; an absent document
\* is created.
SetDocMerge(store, uid, value) ==
    IF Exists(store, uid)
    THEN [store EXCEPT ![uid] = {Spread(Data(store, uid), value)}]
    ELSE [store EXCEPT ![uid] = {value}]

\* updateDoc(ref, fields): as merge, but rejected when the document is absent
UpdateDocOk(store, uid) == Exists(store, uid)
UpdateDoc(store, uid, fields) ==
    [store EXCEPT ![uid] = {Spread(Data(store, uid), fields)}]

\* A role flag as the application reads it (`data.isAdmin || false`).
RoleOf(doc, f) == IF f \in DOMAIN doc THEN doc[f] ELSE FALSE

(***************************************************************************)
(* What a step reports                                                     *)
(***************************************************************************)
Report(op, s, toast) ==
    [op |-> op, s |-> s, toast |-> toast, threw |-> FALSE,
     setLoadingFalse |-> 0, first |-> FALSE,
     pageToast |-> "none", closedEdit |-> FALSE]

\* ProfilePage onSubmit after `await updateUserProfile(...)` has returned:
\* setIsEditing(false) and the page's own success toast.  The call never
\* throws, so the catch block of onSubmit is never entered.
Submitted(report) ==
    [report EXCEPT !.pageToast = "Profile updated", !.closedEdit = TRUE]

(***************************************************************************)
(* Initial state                                                           *)
(***************************************************************************)
InitWith(act) ==
    /\ users = [u \in Identities |-> {}]
    /\ clock = 1
    /\ active = act
    /\ authUser \in [Sessions -> Identities \cup {NoUser}]
    /\ \A s \in Sessions \ act : authUser[s] = NoUser
    /\ events = [s \in Sessions |-> IF s \in act THEN <<authUser[s]>> ELSE <<>>]
    /\ currentUser = [s \in Sessions |-> NoUser]
    /\ userProfile = [s \in Sessions |-> Null]
    /\ loading = [s \in Sessions |-> TRUE]
    /\ handlers = [s \in Sessions |-> <<>>]
    /\ signIn = [s \in Sessions |-> "idle"]
    /\ updates = [s \in Sessions |-> <<>>]
    /\ calls = 0
    /\ seen = {authUser[s] : s \in act} \ {NoUser}
    /\ granted = {}
    /\ forumPosts = {}
    /\ forumComments = {}
    /\ postLikes = {}
    /\ nextId = 1
    /\ listed = {}
    /\ forumOps = <<>>
    /\ last = Report("init", "s1", "none")

Init == InitWith({"s1"})


(***************************************************************************)
(* AuthProvider: the onAuthStateChanged subscription                       *)
(***************************************************************************)
\* Variant of NewUserProfile: the faculty flag is left out of the new profile.
NewUserProfileNoFaculty(user, now) ==
    [uid |-> user.uid,
     displayName |-> user.displayName,
     email |-> user.email,
     photoURL |-> user.photoURL,
     isAdmin |-> FALSE,
     createdAt |-> now]

\* The profile a first sign-in creates.
NewUserProfile(user, now) ==
    [uid |-> user.uid,
     displayName |-> user.displayName,
     email |-> user.email,
     photoURL |-> user.photoURL,
     isAdmin |-> FALSE,
     isFaculty |-> FALSE,
     createdAt |-> now]

\* Variant of AuthStateChanged: the else branch for a null identity does
\* not clear the profile.
AuthStateChangedKeepsProfile(s) ==
    /\ s \in active
    /\ events[s] # <<>>
    /\ LET user == Head(events[s]) IN
       /\ events' = [events EXCEPT ![s] = Tail(@)]
       /\ currentUser' = [currentUser EXCEPT ![s] = user]
       /\ IF user # NoUser
          THEN /\ handlers' = [handlers EXCEPT ![s] =
                      Append(@, [user |-> user, pc |-> "getDoc",
                                 newUserProfile |-> Null,
                                 first |-> user \notin seen])]
               /\ seen' = seen \cup {user}
               /\ last' = [Report("authStateChanged", s, "none")
                              EXCEPT !.first = user \notin seen]
               /\ UNCHANGED <<userProfile, loading>>
          ELSE /\ loading' = [loading EXCEPT ![s] = FALSE]
               /\ last' = [Report("authStateNull", s, "none")
                              EXCEPT !.setLoadingFalse = 1]
               /\ UNCHANGED <<userProfile, handlers, seen>>
    /\ UNCHANGED <<users, clock, active, authUser, signIn, updates, calls,
                   granted>>
    /\ UNCHANGED forumVars

\* The provider delivers the next state change; the callback runs up to
\* its first await (getDoc), or to its end for a null identity.
AuthStateChanged(s) ==
    /\ s \in active
    /\ events[s] # <<>>
    /\ LET user == Head(events[s]) IN
       /\ events' = [events EXCEPT ![s] = Tail(@)]
       /\ currentUser' = [currentUser EXCEPT ![s] = user]
       /\ IF user # NoUser
          THEN /\ handlers' = [handlers EXCEPT ![s] =
                      Append(@, [user |-> user, pc |-> "getDoc",
                                 newUserProfile |-> Null,
                                 first |-> user \notin seen])]
               /\ seen' = seen \cup {user}
               /\ last' = [Report("authStateChanged", s, "none")
                              EXCEPT !.first = user \notin seen]
               /\ UNCHANGED <<userProfile, loading>>
          ELSE /\ userProfile' = [userProfile EXCEPT ![s] = Null]
               /\ loading' = [loading EXCEPT ![s] = FALSE]
               /\ last' = [Report("authStateNull", s, "none")
                              EXCEPT !.setLoadingFalse = 1]
               /\ UNCHANGED <<handlers, seen>>
    /\ UNCHANGED <<users, clock, active, authUser, signIn, updates, calls,
                   granted>>
    /\ UNCHANGED forumVars

\* Variant of HandlerCatch: setLoading(false) sits inside the try block, so
\* the failure path skips it.
HandlerCatchKeepsLoading(s, i) ==
    LET h == handlers[s][i] IN
    /\ handlers' = [handlers EXCEPT ![s] = RemoveAt(@, i)]
    /\ last' = [Report("handlerCatch", s, "Error") EXCEPT !.first = h.first]
    /\ UNCHANGED <<users, clock, userProfile, loading, granted>>

\* catch block of the callback, then setLoading(false)
HandlerCatch(s, i) ==
    LET h == handlers[s][i] IN
    /\ handlers' = [handlers EXCEPT ![s] = RemoveAt(@, i)]
    /\ loading' = [loading EXCEPT ![s] = FALSE]
    /\ last' = [Report("handlerCatch", s, "Error")
                   EXCEPT !.setLoadingFalse = 1, !.first = h.first]
    /\ UNCHANGED <<users, clock, userProfile, granted>>

\* Variant of HandlerFound: the stored profile is refreshed from the
\* identity's current name, email and photo.
HandlerFoundResync(s, i) ==
    LET h == handlers[s][i]
        id == Identity(h.user)
    IN
    /\ userProfile' = [userProfile EXCEPT ![s] =
            Spread(Data(users, h.user),
                   [displayName |-> id.displayName, email |-> id.email,
                    photoURL |-> id.photoURL])]
    /\ handlers' = [handlers EXCEPT ![s] = RemoveAt(@, i)]
    /\ loading' = [loading EXCEPT ![s] = FALSE]
    /\ last' = [Report("handlerFound", s, "none")
                   EXCEPT !.setLoadingFalse = 1, !.first = h.first]
    /\ granted' = granted \ {h.user}
    /\ UNCHANGED <<users, clock>>

\* userDoc.exists(): setUserProfile(userDoc.data()), then setLoading(false)
HandlerFound(s, i) ==
    LET h == handlers[s][i] IN
    /\ userProfile' = [userProfile EXCEPT ![s] = Data(users, h.user)]
    /\ handlers' = [handlers EXCEPT ![s] = RemoveAt(@, i)]
    /\ loading' = [loading EXCEPT ![s] = FALSE]
    /\ last' = [Report("handlerFound", s, "none")
                   EXCEPT !.setLoadingFalse = 1, !.first = h.first]
    /\ granted' = granted \ {h.user}
    /\ UNCHANGED <<users, clock>>

\* no document: build newUserProfile and issue setDoc
HandlerNotFound(s, i) ==
    LET h == handlers[s][i] IN
    /\ handlers' = [handlers EXCEPT ![s][i] =
            [@ EXCEPT !.pc = "setDoc",
                      !.newUserProfile = NewUserProfile(Identity(h.user), clock)]]
    /\ clock' = clock + 1
    /\ last' = [Report("handlerNotFound", s, "none")
                   EXCEPT !.first = h.first]
    /\ UNCHANGED <<users, userProfile, loading, granted>>

\* setDoc resolved: setUserProfile(newUserProfile), then setLoading(false)
HandlerCreated(s, i) ==
    LET h == handlers[s][i] IN
    /\ users' = SetDoc(users, h.user, h.newUserProfile)
    /\ userProfile' = [userProfile EXCEPT ![s] = h.newUserProfile]
    /\ handlers' = [handlers EXCEPT ![s] = RemoveAt(@, i)]
    /\ loading' = [loading EXCEPT ![s] = FALSE]
    /\ last' = [Report("handlerCreated", s, "none")
                   EXCEPT !.setLoadingFalse = 1, !.first = h.first]
    /\ UNCHANGED <<clock, granted>>

\* The response of getDoc arrives.
GetDocResolve(s, i, ok) ==
    /\ s \in active
    /\ i \in DOMAIN handlers[s]
    /\ handlers[s][i].pc = "getDoc"
    /\ IF ~ok THEN HandlerCatch(s, i)
       ELSE IF Exists(users, handlers[s][i].user) THEN HandlerFound(s, i)
       ELSE HandlerNotFound(s, i)
    /\ UNCHANGED <<active, authUser, events, currentUser, signIn, updates,
                   calls, seen>>
    /\ UNCHANGED forumVars

\* Variant of SetDocResolve: the create is rejected by the store when the
\* document already exists.
SetDocResolveCreateOnce(s, i, ok) ==
    /\ s \in active
    /\ i \in DOMAIN handlers[s]
    /\ handlers[s][i].pc = "setDoc"
    /\ IF ok /\ ~Exists(users, handlers[s][i].user)
       THEN HandlerCreated(s, i) ELSE HandlerCatch(s, i)
    /\ UNCHANGED <<active, authUser, events, currentUser, signIn, updates,
                   calls, seen>>
    /\ UNCHANGED forumVars

\* The response of setDoc arrives.
SetDocResolve(s, i, ok) ==
    /\ s \in active
    /\ i \in DOMAIN handlers[s]
    /\ handlers[s][i].pc = "setDoc"
    /\ IF ok THEN HandlerCreated(s, i) ELSE HandlerCatch(s, i)
    /\ UNCHANGED <<active, authUser, events, currentUser, signIn, updates,
                   calls, seen>>
    /\ UNCHANGED forumVars

(***************************************************************************)
(* AuthProvider: signInWithGoogle, signOut                                 *)
(***************************************************************************)
\* The Sign In button is rendered while there is no current user.
\* try { setLoading(true); await signInWithPopup(...)
SignInStart(s) ==
    /\ s \in active
    /\ currentUser[s] = NoUser
    /\ signIn[s] = "idle"
    /\ calls < MaxCalls
    /\ calls' = calls + 1
    /\ loading' = [loading EXCEPT ![s] = TRUE]
    /\ signIn' = [signIn EXCEPT ![s] = "popup"]
    /\ last' = Report("signInStart", s, "none")
    /\ UNCHANGED <<users, clock, active, authUser, events, currentUser,
                   userProfile, handlers, updates, seen, granted>>
    /\ UNCHANGED forumVars

\* The popup ends: the provider signs `u` in (and notifies the subscription
\* when the signed-in uid changed), or rejects (u = NoUser).
PopupResolve(s, u) ==
    /\ s \in active
    /\ signIn[s] = "popup"
    /\ IF u # NoUser
       THEN /\ authUser' = [authUser EXCEPT ![s] = u]
            /\ events' = [events EXCEPT ![s] =
                    IF authUser[s] # u THEN Append(@, u) ELSE @]
            /\ signIn' = [signIn EXCEPT ![s] = "resolved"]
       ELSE /\ signIn' = [signIn EXCEPT ![s] = "rejected"]
            /\ UNCHANGED <<authUser, events>>
    /\ last' = Report("popupResolve", s, "none")
    /\ UNCHANGED <<users, clock, active, currentUser, userProfile, loading,
                   handlers, updates, calls, seen, granted>>
    /\ UNCHANGED forumVars

\* ... toast } catch { toast } finally { setLoading(false) }
SignInContinue(s) ==
    /\ s \in active
    /\ signIn[s] \in {"resolved", "rejected"}
    /\ loading' = [loading EXCEPT ![s] = FALSE]
    /\ signIn' = [signIn EXCEPT ![s] = "idle"]
    /\ last' = Report("signInReturn", s,
                      IF signIn[s] = "resolved" THEN "Welcome!" ELSE "Sign In Failed")
    /\ UNCHANGED <<users, clock, active, authUser, events, currentUser,
                   userProfile, handlers, updates, calls, seen, granted>>
    /\ UNCHANGED forumVars

\* Variant of SignOut: a successful sign-out clears the identity and the
\* profile itself instead of leaving that to the subscription.
SignOutClearsState(s, ok) ==
    /\ s \in active
    /\ currentUser[s] # NoUser
    /\ calls < MaxCalls
    /\ calls' = calls + 1
    /\ IF ok
       THEN /\ authUser' = [authUser EXCEPT ![s] = NoUser]
            /\ events' = [events EXCEPT ![s] =
                    IF authUser[s] # NoUser THEN Append(@, NoUser) ELSE @]
            /\ currentUser' = [currentUser EXCEPT ![s] = NoUser]
            /\ userProfile' = [userProfile EXCEPT ![s] = Null]
            /\ last' = Report("signOut", s, "Signed Out")
       ELSE /\ UNCHANGED <<authUser, events, currentUser, userProfile>>
            /\ last' = Report("signOut", s, "Sign Out Failed")
    /\ UNCHANGED <<users, clock, active, loading, handlers, signIn, updates,
                   seen, granted>>
    /\ UNCHANGED forumVars

\* The Log out item is rendered while there is a current user.  The call
\* touches no state of the provider component before or after its await.
SignOut(s, ok) ==
    /\ s \in active
    /\ currentUser[s] # NoUser
    /\ calls < MaxCalls
    /\ calls' = calls + 1
    /\ IF ok
       THEN /\ authUser' = [authUser EXCEPT ![s] = NoUser]
            /\ events' = [events EXCEPT ![s] =
                    IF authUser[s] # NoUser THEN Append(@, NoUser) ELSE @]
            /\ last' = Report("signOut", s, "Signed Out")
       ELSE /\ UNCHANGED <<authUser, events>>
            /\ last' = Report("signOut", s, "Sign Out Failed")
    /\ UNCHANGED <<users, clock, active, currentUser, userProfile, loading,
                   handlers, signIn, updates, seen, granted>>
    /\ UNCHANGED forumVars

(***************************************************************************)
(* AuthProvider: updateUserProfile                                         *)
(***************************************************************************)
\* Variant of UpdateStart: the early return for a missing current user is
\* left out, and the catch block reports the write that cannot be addressed.
UpdateStartNoGuard(s, data) ==
    /\ s \in active
    /\ calls < MaxCalls
    /\ IF currentUser[s] = NoUser
       THEN /\ last' = Report("updateNoUser", s, "Update Failed")
            /\ UNCHANGED <<updates, calls>>
       ELSE /\ updates' = [updates EXCEPT ![s] =
                    Append(@, [uid |-> currentUser[s], data |-> data,
                               updatedProfile |-> Spread(userProfile[s], data),
                               stored |-> users[currentUser[s]],
                               also |-> <<>>])]
            /\ calls' = calls + 1
            /\ last' = Report("updateStart", s, "none")
    /\ UNCHANGED <<users, clock, active, authUser, events, currentUser,
                   userProfile, loading, handlers, signIn, seen, granted>>
    /\ UNCHANGED forumVars

\* if (!currentUser) return; updatedProfile = {...userProfile, ...data};
\* await setDoc(userDocRef, updatedProfile, {merge: true})
UpdateStart(s, data) ==
    /\ s \in active
    /\ calls < MaxCalls
    /\ IF currentUser[s] = NoUser
       THEN /\ last' = Report("updateNoUser", s, "none")
            /\ UNCHANGED <<updates, calls>>
       ELSE /\ updates' = [updates EXCEPT ![s] =
                    Append(@, [uid |-> currentUser[s], data |-> data,
                               updatedProfile |-> Spread(userProfile[s], data),
                               stored |-> users[currentUser[s]],
                               also |-> <<>>])]
            /\ calls' = calls + 1
            /\ last' = Report("updateStart", s, "none")
    /\ UNCHANGED <<users, clock, active, authUser, events, currentUser,
                   userProfile, loading, handlers, signIn, seen, granted>>
    /\ UNCHANGED forumVars

\* ProfilePage: the edit form is rendered, and can be submitted, when the
\* session is not loading and has a current user.
ProfileSubmit(s, data) ==
    /\ ~loading[s]
    /\ currentUser[s] # NoUser
    /\ UpdateStart(s, data)

\* The calls of the session that stay suspended when call i has completed;
\* each notes the partial of a call for the same identity that succeeded
\* while it was suspended.
OtherUpdates(s, i, ok) ==
    LET c == updates[s][i]
        rest == RemoveAt(updates[s], i)
    IN
    [j \in DOMAIN rest |->
        IF ok /\ rest[j].uid = c.uid
        THEN [rest[j] EXCEPT !.also = Append(@, c.data)]
        ELSE rest[j]]

\* Variant of UpdateResolve: setUserProfile(updatedProfile) is called before
\* the write is awaited, so a failed write leaves the merged profile in memory.
UpdateResolveOptimistic(s, i, ok) ==
    /\ s \in active
    /\ i \in DOMAIN updates[s]
    /\ LET c == updates[s][i] IN
       /\ userProfile' = [userProfile EXCEPT ![s] = c.updatedProfile]
       /\ IF ok
          THEN /\ users' = SetDocMerge(users, c.uid, c.updatedProfile)
               /\ last' = Submitted(Report("updateDone", s, "Profile Updated"))
          ELSE /\ last' = Submitted(Report("updateFailed", s, "Update Failed"))
               /\ UNCHANGED users
    /\ updates' = [updates EXCEPT ![s] = OtherUpdates(s, i, ok)]
    /\ UNCHANGED <<clock, active, authUser, events, currentUser, loading,
                   handlers, signIn, calls, seen, granted>>
    /\ UNCHANGED forumVars

\* The response of setDoc arrives: setUserProfile(updatedProfile) and the
\* success toast, or the catch block.
UpdateResolve(s, i, ok) ==
    /\ s \in active
    /\ i \in DOMAIN updates[s]
    /\ LET c == updates[s][i] IN
       IF ok
       THEN /\ users' = SetDocMerge(users, c.uid, c.updatedProfile)
            /\ userProfile' = [userProfile EXCEPT ![s] = c.updatedProfile]
            /\ last' = Submitted(Report("updateDone", s, "Profile Updated"))
       ELSE /\ last' = Submitted(Report("updateFailed", s, "Update Failed"))
            /\ UNCHANGED <<users, userProfile>>
    /\ updates' = [updates EXCEPT ![s] = OtherUpdates(s, i, ok)]
    /\ UNCHANGED <<clock, active, authUser, events, currentUser, loading,
                   handlers, signIn, calls, seen, granted>>
    /\ UNCHANGED forumVars

(***************************************************************************)
(* Admin console (a separate actor's browser)                              *)
(***************************************************************************)
RoleField(role) == IF role = "admin" THEN "isAdmin" ELSE "isFaculty"

\* toggleUserRole(uid, role, currentValue), called from the switch of a row
\* of the users tab; the row is as fetchUsers just read it.
ToggleUserRole(uid, role, ok) ==
    /\ Exists(users, uid)
    /\ calls < MaxCalls
    /\ calls' = calls + 1
    /\ LET currentValue == RoleOf(Data(users, uid), RoleField(role)) IN
       IF ok /\ UpdateDocOk(users, uid)
       THEN /\ users' = UpdateDoc(users, uid,
                                  [f \in {RoleField(role)} |-> ~currentValue])
            /\ granted' = IF role # "admin" THEN granted
                          ELSE IF currentValue THEN granted \ {uid}
                          ELSE granted \cup {uid}
            /\ last' = Report("toggleUserRole", "admin", "Role Updated")
       ELSE /\ last' = Report("toggleUserRole", "admin", "Error")
            /\ UNCHANGED <<users, granted>>
    /\ UNCHANGED <<clock, active, authUser, events, currentUser, userProfile,
                   loading, handlers, signIn, updates, seen>>
    /\ UNCHANGED forumVars

\* The admin page is opened (by its URL or the menu link) and its effect
\* runs with the profile the provider holds at that moment: navigate('/')
\* when there is no profile or the profile is not an admin's, fetchData()
\* otherwise.
OpenAdminPage(s) ==
    /\ s \in active
    /\ last' =
          IF userProfile[s] = Null
          THEN Report("adminRedirect", s, "none")
          ELSE IF ~RoleOf(userProfile[s], "isAdmin")
          THEN Report("adminRedirect", s, "Access Denied")
          ELSE Report("adminDashboard", s, "none")
    /\ UNCHANGED calls
    /\ UNCHANGED authVars
    /\ UNCHANGED forumVars

(***************************************************************************)
(* Pages: the conditions under which create and delete controls are shown  *)
(***************************************************************************)
\* userProfile.uid, undefined when the stored document had no such field
UidOf(profile) == IF "uid" \in DOMAIN profile THEN profile.uid ELSE "undefined"

\* Events page
CanDeleteEvent(profile, organizerId) ==
    profile # Null /\ (UidOf(profile) = organizerId \/ RoleOf(profile, "isAdmin"))
CanCreateEvent(profile) == profile # Null

\* Variant of CanPostNotice: only admins may post notices.
CanPostNoticeAdminOnly(profile) ==
    profile # Null /\ RoleOf(profile, "isAdmin")

\* Notices page
CanPostNotice(profile) ==
    profile # Null /\ (RoleOf(profile, "isAdmin") \/ RoleOf(profile, "isFaculty"))
CanDeleteNotice(profile, createdById) ==
    profile # Null /\ (UidOf(profile) = createdById \/ RoleOf(profile, "isAdmin"))

\* Lost & found page
CanDeleteItem(profile, authorId) ==
    profile # Null /\ (UidOf(profile) = authorId \/ RoleOf(profile, "isAdmin"))
CanReportItem(profile) == profile # Null

\* Discussions page
CanModifyPost(profile, authorId) ==
    profile # Null /\ (UidOf(profile) = authorId \/ RoleOf(profile, "isAdmin"))
CanModifyComment(profile, authorId) ==
    profile # Null /\ (UidOf(profile) = authorId \/ RoleOf(profile, "isAdmin"))
CanCreatePost(profile) == profile # Null
CanComment(profile) == profile # Null

(***************************************************************************)
(* Discussions page.  The first external call of an operation is taken     *)
(* together with its response: the operation reads nothing before it that  *)
(* another step could change.  The later calls are separate steps.         *)
(***************************************************************************)
ListedPosts == {r \in listed : r.kind = "post"}
ListedComments == {r \in listed : r.kind = "comment"}

\* getDoc(doc(firestore, "forumPosts", postId))
PostDocs(postId) == {p \in forumPosts : p.id = postId}
\* query(likesRef, where postId, where userId)
LikesOf(postId, uid) == {l \in postLikes : l.postId = postId /\ l.userId = uid}
\* query(commentsRef, where postId)
CommentsOf(postId) == {c \in forumComments : c.postId = postId}

ForumOp(s, op, pc, postId, commentId) ==
    [s |-> s, uid |-> UidOf(userProfile[s]), op |-> op, pc |-> pc,
     postId |-> postId, commentId |-> commentId, count |-> 0, wrote |-> TRUE]

\* The title of the toast an operation ends with.
DoneToast(op) ==
    CASE op = "likePost"      -> "Post Liked"
      [] op = "submitComment" -> "Comment Added"
      [] op = "deleteComment" -> "Comment Deleted"
      [] OTHER                -> "Post Deleted"

\* The counter an operation maintains on the post, and its new value.
CountField(op) == IF op = "likePost" THEN "likeCount" ELSE "commentCount"
NewCount(op, count) ==
    IF op = "deleteComment"
    THEN (IF count - 1 > 0 THEN count - 1 ELSE 0)
    ELSE count + 1

\* onSubmitPost: addDoc(forumPosts, {..., commentCount: 0, likeCount: 0})
SubmitPost(s, ok) ==
    /\ s \in active
    /\ CanCreatePost(userProfile[s])
    /\ calls < MaxCalls
    /\ calls' = calls + 1
    /\ IF ok
       THEN /\ forumPosts' = forumPosts \cup
                    {[id |-> nextId, authorId |-> UidOf(userProfile[s]),
                      commentCount |-> 0, likeCount |-> 0]}
            /\ listed' = listed \cup
                    {[kind |-> "post", id |-> nextId, postId |-> nextId,
                      authorId |-> UidOf(userProfile[s])]}
            /\ nextId' = nextId + 1
            /\ last' = Report("submitPost", s, "Post Created")
       ELSE /\ last' = Report("submitPost", s, "Error")
            /\ UNCHANGED <<forumPosts, listed, nextId>>
    /\ UNCHANGED <<forumComments, postLikes, forumOps>>
    /\ UNCHANGED authVars

\* onSubmitComment: addDoc(forumComments, commentData), then getDoc(postRef)
SubmitComment(s, postId, ok) ==
    /\ s \in active
    /\ CanComment(userProfile[s])
    /\ \E r \in ListedPosts : r.id = postId
    /\ calls < MaxCalls
    /\ calls' = calls + 1
    /\ IF ok
       THEN /\ forumComments' = forumComments \cup
                    {[id |-> nextId, postId |-> postId,
                      authorId |-> UidOf(userProfile[s])]}
            /\ listed' = listed \cup
                    {[kind |-> "comment", id |-> nextId, postId |-> postId,
                      authorId |-> UidOf(userProfile[s])]}
            /\ nextId' = nextId + 1
            /\ forumOps' = Append(forumOps,
                    ForumOp(s, "submitComment", "getDoc", postId, nextId))
            /\ last' = Report("submitComment", s, "none")
       ELSE /\ last' = Report("submitComment", s, "Error")
            /\ UNCHANGED <<forumComments, listed, nextId, forumOps>>
    /\ UNCHANGED <<forumPosts, postLikes>>
    /\ UNCHANGED authVars

\* likePost: getDocs(q); `Already Liked` when the query is not empty,
\* otherwise addDoc(likesRef, ...) is issued
LikePost(s, postId, ok) ==
    /\ s \in active
    /\ \E r \in ListedPosts : r.id = postId
    /\ calls < MaxCalls
    /\ calls' = calls + 1
    /\ IF userProfile[s] = Null
       THEN /\ last' = Report("likePost", s, "Authentication required")
            /\ UNCHANGED forumOps
       ELSE IF ~ok
       THEN /\ last' = Report("likePost", s, "Error")
            /\ UNCHANGED forumOps
       ELSE IF LikesOf(postId, UidOf(userProfile[s])) # {}
       THEN /\ last' = Report("likePost", s, "Already Liked")
            /\ UNCHANGED forumOps
       ELSE /\ forumOps' = Append(forumOps,
                    [ForumOp(s, "likePost", "addDoc", postId, 0)
                        EXCEPT !.wrote = FALSE])
            /\ last' = Report("likePost", s, "none")
    /\ UNCHANGED <<forumPosts, forumComments, postLikes, nextId, listed>>
    /\ UNCHANGED authVars

\* deletePost: deleteDoc(post), then getDocs(comments of the post)
DeletePost(s, postId, ok) ==
    /\ s \in active
    /\ \E r \in ListedPosts :
          r.id = postId /\ CanModifyPost(userProfile[s], r.authorId)
    /\ calls < MaxCalls
    /\ calls' = calls + 1
    /\ IF ok
       THEN /\ forumPosts' = forumPosts \ PostDocs(postId)
            /\ forumOps' = Append(forumOps,
                    ForumOp(s, "deletePost", "getDocs", postId, 0))
            /\ last' = Report("deletePost", s, "none")
       ELSE /\ last' = Report("deletePost", s, "Error")
            /\ UNCHANGED <<forumPosts, forumOps>>
    /\ UNCHANGED <<forumComments, postLikes, nextId, listed>>
    /\ UNCHANGED authVars

\* deleteComment: deleteDoc(comment), then getDoc(postRef)
DeleteComment(s, commentId, ok) ==
    /\ s \in active
    /\ calls < MaxCalls
    /\ \E r \in ListedComments :
          /\ r.id = commentId
          /\ CanModifyComment(userProfile[s], r.authorId)
          /\ IF ok
             THEN /\ forumComments' = {c \in forumComments : c.id # commentId}
                  /\ forumOps' = Append(forumOps,
                          ForumOp(s, "deleteComment", "getDoc", r.postId, commentId))
                  /\ last' = Report("deleteComment", s, "none")
             ELSE /\ last' = Report("deleteComment", s, "Error")
                  /\ UNCHANGED <<forumComments, forumOps>>
    /\ calls' = calls + 1
    /\ UNCHANGED <<forumPosts, postLikes, nextId, listed>>
    /\ UNCHANGED authVars

\* querySnapshot.forEach(async (document) => { await deleteDoc(...) }):
\* one request per comment, in the order of the ids; nothing awaits them.
RECURSIVE CommentDeletes(_, _, _)
CommentDeletes(s, postId, ids) ==
    IF ids = {} THEN <<>>
    ELSE LET id == CHOOSE x \in ids : \A y \in ids : x <= y IN
         <<ForumOp(s, "deletePost", "deleteDoc", postId, id)>>
             \o CommentDeletes(s, postId, ids \ {id})

\* The catch block of a discussions page operation.
ForumCatch(i) ==
    /\ forumOps' = RemoveAt(forumOps, i)
    /\ last' = Report(forumOps[i].op, forumOps[i].s, "Error")
    /\ UNCHANGED <<forumPosts, forumComments, postLikes, nextId>>

\* addDoc(likesRef, ...) resolved: the like record is stored, getDoc(postRef)
LikeAdded(i) ==
    LET o == forumOps[i] IN
    /\ postLikes' = postLikes \cup
            {[id |-> nextId, postId |-> o.postId, userId |-> o.uid]}
    /\ nextId' = nextId + 1
    /\ forumOps' = [forumOps EXCEPT ![i].pc = "getDoc", ![i].wrote = TRUE]
    /\ last' = Report(o.op, o.s, "none")
    /\ UNCHANGED <<forumPosts, forumComments>>

\* getDoc(postRef) resolved: updateDoc(postRef, {count: current +- 1}) when
\* the post exists, the success toast otherwise
CountRead(i) ==
    LET o == forumOps[i] IN
    /\ IF PostDocs(o.postId) # {}
       THEN /\ forumOps' = [forumOps EXCEPT
                    ![i].pc = "updateDoc",
                    ![i].count =
                        (CHOOSE p \in PostDocs(o.postId) : TRUE)[CountField(o.op)]]
            /\ last' = Report(o.op, o.s, "none")
       ELSE /\ forumOps' = RemoveAt(forumOps, i)
            /\ last' = Report(o.op, o.s, DoneToast(o.op))
    /\ UNCHANGED <<forumPosts, forumComments, postLikes, nextId>>

\* updateDoc(postRef, ...) resolved: the counter is stored, success toast
CountWritten(i) ==
    LET o == forumOps[i] IN
    /\ forumPosts' =
            {IF p.id = o.postId
             THEN [p EXCEPT ![CountField(o.op)] = NewCount(o.op, o.count)]
             ELSE p : p \in forumPosts}
    /\ forumOps' = RemoveAt(forumOps, i)
    /\ last' = Report(o.op, o.s, DoneToast(o.op))
    /\ UNCHANGED <<forumComments, postLikes, nextId>>

\* getDocs(comments of the post) resolved: one deleteDoc per comment is
\* issued and not awaited, then the success toast
CommentsQueried(i) ==
    LET o == forumOps[i] IN
    /\ forumOps' = RemoveAt(forumOps, i) \o
            CommentDeletes(o.s, o.postId, {c.id : c \in CommentsOf(o.postId)})
    /\ last' = Report(o.op, o.s, DoneToast(o.op))
    /\ UNCHANGED <<forumPosts, forumComments, postLikes, nextId>>

\* a deleteDoc of the forEach callback settles; a rejection is the rejection
\* of the callback's promise, which nothing handles
CommentDeleteSettled(i, ok) ==
    LET o == forumOps[i] IN
    /\ forumOps' = RemoveAt(forumOps, i)
    /\ IF ok
       THEN /\ forumComments' = {c \in forumComments : c.id # o.commentId}
            /\ last' = Report("commentDelete", o.s, "none")
       ELSE /\ last' = [Report("commentDelete", o.s, "none") EXCEPT !.threw = TRUE]
            /\ UNCHANGED forumComments
    /\ UNCHANGED <<forumPosts, postLikes, nextId>>

\* The response of the external call an operation is suspended at arrives.
ForumResolve(i, ok) ==
    /\ i \in DOMAIN forumOps
    /\ LET pc == forumOps[i].pc IN
       CASE pc = "addDoc"    -> IF ok THEN LikeAdded(i) ELSE ForumCatch(i)
         [] pc = "getDoc"    -> IF ok THEN CountRead(i) ELSE ForumCatch(i)
         [] pc = "updateDoc" ->
                IF ok /\ PostDocs(forumOps[i].postId) # {}
                THEN CountWritten(i) ELSE ForumCatch(i)
         [] pc = "getDocs"   -> IF ok THEN CommentsQueried(i) ELSE ForumCatch(i)
         [] OTHER            -> CommentDeleteSettled(i, ok)
    /\ UNCHANGED <<listed, calls>>
    /\ UNCHANGED authVars

(***************************************************************************)
(* Specification                                                           *)
(***************************************************************************)
Next ==
    \/ \E s \in Sessions : AuthStateChanged(s)
    \/ \E s \in Sessions, i \in 1..MaxCalls + 1, ok \in BOOLEAN : GetDocResolve(s, i, ok)
    \/ \E s \in Sessions, i \in 1..MaxCalls + 1, ok \in BOOLEAN : SetDocResolve(s, i, ok)
    \/ \E s \in Sessions : SignInStart(s)
    \/ \E s \in Sessions, u \in Identities \cup {NoUser} : PopupResolve(s, u)
    \/ \E s \in Sessions : SignInContinue(s)
    \/ \E s \in Sessions, ok \in BOOLEAN : SignOut(s, ok)
    \/ \E s \in Sessions, data \in Partials : ProfileSubmit(s, data)
    \/ \E s \in Sessions, i \in 1..MaxCalls, ok \in BOOLEAN : UpdateResolve(s, i, ok)
    \/ \E uid \in Identities, role \in {"admin", "faculty"}, ok \in BOOLEAN :
          ToggleUserRole(uid, role, ok)

Spec == Init /\ [][Next]_vars

\* Any consumer of the context may call updateUserProfile at any time.
NextApi ==
    \/ Next
    \/ \E s \in Sessions, data \in Partials : UpdateStart(s, data)

SpecApi == Init /\ [][NextApi]_vars

\* The application open in two browsers at once.
InitTwo == InitWith({"s1", "s2"})
NextTwo ==
    \/ \E s \in Sessions : AuthStateChanged(s)
    \/ \E s \in Sessions, i \in 1..MaxCalls + 1, ok \in BOOLEAN : GetDocResolve(s, i, ok)
    \/ \E s \in Sessions, i \in 1..MaxCalls + 1, ok \in BOOLEAN : SetDocResolve(s, i, ok)
    \/ \E s \in Sessions, data \in Partials : ProfileSubmit(s, data)
    \/ \E s \in Sessions, i \in 1..MaxCalls, ok \in BOOLEAN : UpdateResolve(s, i, ok)
    \/ \E uid \in Identities, role \in {"admin", "faculty"}, ok \in BOOLEAN :
          ToggleUserRole(uid, role, ok)

SpecTwo == InitTwo /\ [][NextTwo]_vars

\* Two browsers, in which the admin page can be opened at any time.
NextAdmin ==
    \/ NextTwo
    \/ \E s \in Sessions : OpenAdminPage(s)

SpecAdmin == InitWith({"s1", "s2"}) /\ [][NextAdmin]_vars

\* The discussions page open in two browsers whose users are signed in and
\* have their profiles loaded: the first is u1, the second u1 or u2, and u2
\* may be an admin.
InitForum ==
    /\ \E admins \in {{}, {"u2"}} :
          users = [u \in Identities |->
                     {[NewUserProfile(Identity(u), 0)
                          EXCEPT !.isAdmin = u \in admins]}]
    /\ clock = 1
    /\ active = Sessions
    /\ authUser \in [Sessions -> Identities]
    /\ authUser["s1"] = "u1"
    /\ events = [s \in Sessions |-> <<>>]
    /\ currentUser = authUser
    /\ userProfile = [s \in Sessions |-> Data(users, authUser[s])]
    /\ loading = [s \in Sessions |-> FALSE]
    /\ handlers = [s \in Sessions |-> <<>>]
    /\ signIn = [s \in Sessions |-> "idle"]
    /\ updates = [s \in Sessions |-> <<>>]
    /\ calls = 0
    /\ seen = Identities
    /\ granted = {}
    /\ forumPosts = {}
    /\ forumComments = {}
    /\ postLikes = {}
    /\ nextId = 1
    /\ listed = {}
    /\ forumOps = <<>>
    /\ last = Report("init", "s1", "none")

Ids == 1..MaxCalls

NextForum ==
    \/ \E s \in Sessions, ok \in BOOLEAN : SubmitPost(s, ok)
    \/ \E s \in Sessions, postId \in Ids, ok \in BOOLEAN : SubmitComment(s, postId, ok)
    \/ \E s \in Sessions, postId \in Ids, ok \in BOOLEAN : LikePost(s, postId, ok)
    \/ \E s \in Sessions, postId \in Ids, ok \in BOOLEAN : DeletePost(s, postId, ok)
    \/ \E s \in Sessions, commentId \in Ids, ok \in BOOLEAN : DeleteComment(s, commentId, ok)
    \/ \E i \in Ids, ok \in BOOLEAN : ForumResolve(i, ok)

SpecForum == InitForum /\ [][NextForum]_vars

\* The discussions page when every external call succeeds.
NextForumOk ==
    \/ \E s \in Sessions : SubmitPost(s, TRUE)
    \/ \E s \in Sessions, postId \in Ids : SubmitComment(s, postId, TRUE)
    \/ \E s \in Sessions, postId \in Ids : LikePost(s, postId, TRUE)
    \/ \E s \in Sessions, postId \in Ids : DeletePost(s, postId, TRUE)
    \/ \E s \in Sessions, commentId \in Ids : DeleteComment(s, commentId, TRUE)
    \/ \E i \in Ids : ForumResolve(i, TRUE)

SpecForumOk == InitForum /\ [][NextForumOk]_vars

(***************************************************************************)
(* Properties                                                              *)
(***************************************************************************)
Slots == 1..(MaxCalls + 1)
ProfileFields ==
    {"uid", "displayName", "email", "photoURL", "isAdmin", "isFaculty", "createdAt"}

\* The callback of handler i of session s ends in this step with a failure.
HandlerFails(s, i) == GetDocResolve(s, i, FALSE) \/ SetDocResolve(s, i, FALSE)
\* ... with the stored profile found.
HandlerFinds(s, i) ==
    /\ GetDocResolve(s, i, TRUE)
    /\ Exists(users, handlers[s][i].user)
\* ... reaches `not found` and builds the new profile.
HandlerBuilds(s, i) ==
    /\ GetDocResolve(s, i, TRUE)
    /\ ~Exists(users, handlers[s][i].user)
\* ... with the new profile written.
HandlerCreates(s, i) == SetDocResolve(s, i, TRUE)

\* C1: once the session has no identity (the null-identity event has been
\* handled and no later sign-in event has arrived), no profile is shown: a
\* fetch or create started by an earlier sign-in event and still in flight
\* does not bring the earlier identity's profile back.
C1_NoProfileAfterSignOut ==
    \A s \in Sessions : currentUser[s] = NoUser => userProfile[s] = Null

\* C2: when the profile read or the create write of a sign-in event fails,
\* the callback shows the error toast and ends with no profile in memory,
\* whatever profile was in memory before.
C2_FailureLeavesNoProfile ==
    [][\A s \in Sessions, i \in Slots :
          HandlerFails(s, i) =>
              /\ last'.toast = "Error"
              /\ userProfile'[s] = Null]_vars

\* C3: a successful updateUserProfile(data), on a document that no one
\* else wrote between the call and its write, leaves a stored document in
\* which every field of data has the new value and every field stored at
\* the time of the call that is not in data keeps its value.
C3_UpdateMergesIntoStore ==
    [][\A s \in Sessions, i \in Slots :
          UpdateResolve(s, i, TRUE) /\ updates[s][i].stored = users[updates[s][i].uid] =>
              LET c == updates[s][i]
                  new == Data(users', c.uid)
              IN
              /\ \A f \in DOMAIN c.data : f \in DOMAIN new /\ new[f] = c.data[f]
              /\ Exists(users, c.uid) =>
                    \A f \in (DOMAIN Data(users, c.uid)) \ (DOMAIN c.data) :
                        f \in DOMAIN new /\ new[f] = Data(users, c.uid)[f]]_vars

C5_FirstSignInLeavesProfile ==
    [][\A s \in Sessions, i \in Slots :
          (HandlerFinds(s, i) \/ HandlerCreates(s, i)) /\ handlers[s][i].first =>
              LET u == handlers[s][i].user IN
              /\ Exists(users', u)
              /\ "uid" \in DOMAIN Data(users', u)
              /\ Data(users', u).uid = u]_vars

\* C6: on `not found` the callback builds exactly {uid, displayName, email,
\* photoURL of the identity, isAdmin false, isFaculty false, createdAt now};
\* when its write succeeds that value is the stored document and the
\* in-memory profile, with no other field.
C6_NewProfileExact ==
    [][\A s \in Sessions, i \in Slots :
          /\ HandlerBuilds(s, i) =>
                LET u == handlers[s][i].user IN
                handlers'[s][i].newUserProfile =
                    [uid |-> u,
                     displayName |-> Identity(u).displayName,
                     email |-> Identity(u).email,
                     photoURL |-> Identity(u).photoURL,
                     isAdmin |-> FALSE,
                     isFaculty |-> FALSE,
                     createdAt |-> clock]
          /\ HandlerCreates(s, i) =>
                LET u == handlers[s][i].user
                    p == userProfile'[s]
                IN
                /\ users'[u] = {p}
                /\ DOMAIN p = ProfileFields
                /\ p.uid = u
                /\ p.displayName = Identity(u).displayName
                /\ p.email = Identity(u).email
                /\ p.photoURL = Identity(u).photoURL
                /\ p.isAdmin = FALSE /\ p.isFaculty = FALSE
                /\ p.createdAt = handlers[s][i].newUserProfile.createdAt]_vars

\* a new profile has just been written and shown
C6_Witness ==
    /\ last.op = "handlerCreated"
    /\ userProfile[last.s] # Null
    /\ DOMAIN userProfile[last.s] = ProfileFields
    /\ users[userProfile[last.s].uid] = {userProfile[last.s]}

\* C7: when the document of the identity exists, the callback sets the
\* in-memory profile to the stored document as it is and writes nothing.
C7_FoundProfileVerbatim ==
    [][\A s \in Sessions, i \in Slots :
          HandlerFinds(s, i) =>
              /\ userProfile'[s] = Data(users, handlers[s][i].user)
              /\ users' = users]_vars

\* a sign-in has found a stored profile whose display name is no longer the
\* identity's
C7_Witness ==
    /\ last.op = "handlerFound"
    /\ currentUser[last.s] # NoUser
    /\ userProfile[last.s] # Null
    /\ DOMAIN userProfile[last.s] = ProfileFields
    /\ users[currentUser[last.s]] = {userProfile[last.s]}
    /\ userProfile[last.s].uid = currentUser[last.s]
    /\ userProfile[last.s].displayName # Identity(currentUser[last.s]).displayName

\* C8: the callback of every state-change event sets loading to false once,
\* in the step in which it ends (found, created or failed), and in no step
\* before: not when the event arrives with an identity, and not between the
\* read and the create write.
C8_LoadingFalseOncePerEvent ==
    [][\A s \in Sessions :
          /\ AuthStateChanged(s) =>
                IF Head(events[s]) = NoUser
                THEN /\ loading'[s] = FALSE
                     /\ last'.setLoadingFalse = 1
                     /\ Len(handlers'[s]) = Len(handlers[s])
                ELSE /\ loading'[s] = loading[s]
                     /\ last'.setLoadingFalse = 0
                     /\ Len(handlers'[s]) = Len(handlers[s]) + 1
          /\ \A i \in Slots, ok \in BOOLEAN :
                (GetDocResolve(s, i, ok) \/ SetDocResolve(s, i, ok)) =>
                    IF Len(handlers'[s]) = Len(handlers[s])
                    THEN /\ loading'[s] = loading[s]
                         /\ last'.setLoadingFalse = 0
                         /\ handlers'[s][i].pc = "setDoc"
                    ELSE /\ loading'[s] = FALSE
                         /\ last'.setLoadingFalse = 1
                         /\ Len(handlers'[s]) = Len(handlers[s]) - 1]_vars

\* a callback has just ended in its catch block
C8_Witness ==
    /\ last.op = "handlerCatch"
    /\ last.setLoadingFalse = 1
    /\ ~loading[last.s]

\* C9: loading is true for as long as the popup of signInWithGoogle is open.
C9_LoadingDuringSignIn ==
    \A s \in Sessions : signIn[s] = "popup" => loading[s]

\* C10: a role flag of a stored profile is false when the document is
\* created, and afterwards only toggleUserRole changes it.
C10_RolesChangeOnlyByAdmin ==
    [][\A u \in Identities, f \in {"isAdmin", "isFaculty"} :
          /\ ~Exists(users, u) /\ Exists(users', u) =>
                RoleOf(Data(users', u), f) = FALSE
          /\ Exists(users, u) /\ Exists(users', u)
               /\ RoleOf(Data(users', u), f) # RoleOf(Data(users, u), f) =>
                last'.op = "toggleUserRole"]_vars

\* C11: every stored profile carries a uid, the uid is the key the document
\* is stored under, and a step never changes the uid of a document that
\* exists, whatever the sequence of sign-ins, sign-outs, updateUserProfile
\* calls and admin operations.
C11_UidMatchesKey ==
    \A u \in Identities :
        Exists(users, u) =>
            /\ "uid" \in DOMAIN Data(users, u)
            /\ Data(users, u).uid = u

\* C12: createdAt of a stored profile is set when the document is created,
\* and no later step changes or removes it.
C12_CreatedAtNeverChanges ==
    [][\A u \in Identities :
          Exists(users, u) /\ "createdAt" \in DOMAIN Data(users, u) =>
              /\ Exists(users', u)
              /\ "createdAt" \in DOMAIN Data(users', u)
              /\ Data(users', u).createdAt = Data(users, u).createdAt]_vars

\* C13: when two browsers sign in with the same new identity and both read
\* `not found`, each create write that the store answers succeeds, also the
\* one that arrives when the other browser's document is already stored: it
\* shows no toast, throws nothing, and leaves exactly one document at the
\* key, which is the value this write carried.
C13_LastCreateWins ==
    [][\A s \in Sessions, i \in Slots :
          HandlerCreates(s, i) =>
              LET h == handlers[s][i] IN
              /\ users'[h.user] = {h.newUserProfile}
              /\ Cardinality(users'[h.user]) = 1
              /\ userProfile'[s] = h.newUserProfile
              /\ last'.toast = "none"
              /\ ~last'.threw]_vars

\* both browsers have created the profile of the same identity; the store
\* holds the later write, the other browser still shows the earlier one
C13_Witness ==
    /\ last.op = "handlerCreated"
    /\ currentUser["s1"] # NoUser
    /\ currentUser["s1"] = currentUser["s2"]
    /\ handlers["s1"] = <<>> /\ handlers["s2"] = <<>>
    /\ userProfile["s1"] # Null /\ userProfile["s2"] # Null
    /\ DOMAIN userProfile["s1"] = ProfileFields
    /\ DOMAIN userProfile["s2"] = ProfileFields
    /\ userProfile["s1"].createdAt # userProfile["s2"].createdAt
    /\ users[currentUser["s1"]] = {userProfile[last.s]}

\* C14: updateUserProfile called while the current identity is null returns
\* at once: it issues no store request, leaves the store, the identity, the
\* profile and loading as they are, and shows no toast.
C14_UpdateWithoutUserIsNoOp ==
    [][\A s \in Sessions, data \in Partials :
          UpdateStart(s, data) /\ currentUser[s] = NoUser =>
              /\ UNCHANGED <<users, updates, handlers, currentUser,
                             userProfile, loading>>
              /\ last'.toast = "none"
              /\ ~last'.threw]_vars

\* updateUserProfile has just returned early, in a session whose identity
\* is null while a profile is still in memory or a sign-in is under way
C14_Witness ==
    /\ last.op = "updateNoUser"
    /\ currentUser[last.s] = NoUser
    /\ userProfile[last.s] # Null

\* C15: signOut changes neither the identity, the profile nor loading of
\* the provider component, whether the identity provider accepts or rejects
\* the sign-out; the identity and the profile of a session become null only
\* in the step that handles a null-identity event.  A rejected sign-out
\* shows the failure toast and queues no event; an accepted one queues the
\* null event.
C15_SignOutLeavesStateToHandler ==
    [][\A s \in Sessions :
          /\ \A ok \in BOOLEAN :
                SignOut(s, ok) =>
                    /\ UNCHANGED <<currentUser, userProfile, loading, users>>
                    /\ ~last'.threw
                    /\ IF ok
                       THEN /\ last'.toast = "Signed Out"
                            /\ authUser[s] # NoUser =>
                                  events'[s] = Append(events[s], NoUser)
                       ELSE /\ last'.toast = "Sign Out Failed"
                            /\ UNCHANGED <<authUser, events>>
          /\ currentUser[s] # NoUser /\ currentUser'[s] = NoUser =>
                last'.op = "authStateNull"
          /\ userProfile[s] # Null /\ userProfile'[s] = Null =>
                last'.op = "authStateNull"]_vars

\* a sign-out has just been rejected and the session still shows its user
C15_Witness ==
    /\ last.op = "signOut"
    /\ last.toast = "Sign Out Failed"
    /\ currentUser[last.s] # NoUser
    /\ userProfile[last.s] # Null
    /\ authUser[last.s] = currentUser[last.s]

\* C16: the step that handles a null-identity event sets the identity and
\* the profile to null and loading to false, at once and without any store
\* request: no callback is left suspended by it and the store is unchanged.
C16_NullEventClearsSession ==
    [][\A s \in Sessions :
          AuthStateChanged(s) /\ Head(events[s]) = NoUser =>
              /\ currentUser'[s] = NoUser
              /\ userProfile'[s] = Null
              /\ loading'[s] = FALSE
              /\ handlers' = handlers
              /\ users' = users
              /\ last'.toast = "none"]_vars

\* the null event of a sign-out has just been handled in a session that
\* had created its profile
C16_Witness ==
    /\ last.op = "authStateNull"
    /\ calls > 0
    /\ currentUser[last.s] = NoUser
    /\ userProfile[last.s] = Null
    /\ ~loading[last.s]
    /\ \E u \in Identities : Exists(users, u)

\* C17: a successful toggleUserRole(uid, 'admin', false) on a stored profile
\* whose isAdmin is false stores isAdmin true and changes no other field, and
\* the next sign-in callback that finds uid's profile shows isAdmin true
\* (unless a later toggle switched it off again).
C17_GrantedAdminIsFetched ==
    [][/\ \A uid \in Identities :
             /\ ToggleUserRole(uid, "admin", TRUE)
             /\ ~RoleOf(Data(users, uid), "isAdmin")
             => /\ Exists(users', uid)
                /\ Data(users', uid) =
                       Spread(Data(users, uid), [isAdmin |-> TRUE])
                /\ \A v \in Identities \ {uid} : users'[v] = users[v]
                /\ last'.toast = "Role Updated"
       /\ \A s \in Sessions, i \in Slots :
             HandlerFinds(s, i) /\ handlers[s][i].user \in granted =>
                 RoleOf(userProfile'[s], "isAdmin")]_vars

\* The condition the pages are said to use: a profile is in memory and it
\* is the owner's or an admin's.
OwnerOrAdmin(profile, ownerId) ==
    profile # Null /\ (UidOf(profile) = ownerId \/ RoleOf(profile, "isAdmin"))

\* C20 as claimed: on every page the delete control of a resource, and the
\* create control (whose resource the creating user will own), is shown
\* exactly when a profile is in memory and it is the owner's or an admin's.
C20_GatesOwnerOrAdmin ==
    \A s \in Sessions, owner \in Identities :
        LET p == userProfile[s] IN
        /\ CanDeleteEvent(p, owner) <=> OwnerOrAdmin(p, owner)
        /\ CanDeleteNotice(p, owner) <=> OwnerOrAdmin(p, owner)
        /\ CanDeleteItem(p, owner) <=> OwnerOrAdmin(p, owner)
        /\ CanModifyPost(p, owner) <=> OwnerOrAdmin(p, owner)
        /\ CanModifyComment(p, owner) <=> OwnerOrAdmin(p, owner)
        /\ CanCreateEvent(p) <=> OwnerOrAdmin(p, UidOf(p))
        /\ CanReportItem(p) <=> OwnerOrAdmin(p, UidOf(p))
        /\ CanCreatePost(p) <=> OwnerOrAdmin(p, UidOf(p))
        /\ CanPostNotice(p) <=> OwnerOrAdmin(p, UidOf(p))

\* C20 as amended: the delete controls are shown exactly when a profile is
\* in memory and it is the owner's or an admin's; the create controls of
\* events, lost & found items, posts and comments are shown exactly when a
\* profile is in memory; the create control of notices exactly when the
\* profile in memory is an admin's or a faculty member's.
C20_GatesPerPage ==
    \A s \in Sessions, owner \in Identities :
        LET p == userProfile[s] IN
        /\ CanDeleteEvent(p, owner) <=> OwnerOrAdmin(p, owner)
        /\ CanDeleteNotice(p, owner) <=> OwnerOrAdmin(p, owner)
        /\ CanDeleteItem(p, owner) <=> OwnerOrAdmin(p, owner)
        /\ CanModifyPost(p, owner) <=> OwnerOrAdmin(p, owner)
        /\ CanModifyComment(p, owner) <=> OwnerOrAdmin(p, owner)
        /\ CanCreateEvent(p) <=> p # Null
        /\ CanReportItem(p) <=> p # Null
        /\ CanCreatePost(p) <=> p # Null
        /\ CanComment(p) <=> p # Null
        /\ CanPostNotice(p) <=>
              /\ p # Null
              /\ \/ "isAdmin" \in DOMAIN p /\ p.isAdmin
                 \/ "isFaculty" \in DOMAIN p /\ p.isFaculty

\* a faculty member who is not an admin is signed in: notices can be
\* posted, other users' resources cannot be deleted
C20_Witness ==
    \E s \in Sessions :
        /\ userProfile[s] # Null
        /\ DOMAIN userProfile[s] = ProfileFields
        /\ userProfile[s].isFaculty /\ ~userProfile[s].isAdmin
        /\ userProfile[s].uid = "u1"
        /\ CanPostNotice(userProfile[s])
        /\ ~CanDeleteNotice(userProfile[s], "u2")
        /\ CanDeleteNotice(userProfile[s], "u1")

\* C18: whenever an external call of a discussions page operation fails
\* (the first call of an operation, a later one, or one of the per-comment
\* deletes deletePost issues), the step that receives the failure shows a
\* toast and leaves no rejection unhandled.
C18_FailuresBecomeToasts ==
    [][(\/ \E s \in Sessions : SubmitPost(s, FALSE)
        \/ \E s \in Sessions, id \in Ids :
              \/ SubmitComment(s, id, FALSE)
              \/ LikePost(s, id, FALSE)
              \/ DeletePost(s, id, FALSE)
              \/ DeleteComment(s, id, FALSE)
        \/ \E i \in Ids : ForumResolve(i, FALSE))
       => /\ last'.toast # "none"
          /\ ~last'.threw]_vars

\* C19: a discussions page operation that ends in its catch block has
\* written nothing to the store: the store is as it would be had the
\* operation not been started.
C19_FailedOperationWroteNothing ==
    [][\A i \in Ids, ok \in BOOLEAN :
          ForumResolve(i, ok) /\ last'.toast = "Error" =>
              ~forumOps[i].wrote]_vars

\* C21: while the profile read or create for the session's identity is
\* outstanding, no step sets loading of that session from true to false: a
\* step that does so leaves no callback for the current identity suspended.
C21_LoadingStaysWhileOutstanding ==
    [][\A s \in Sessions :
          loading[s] /\ ~loading'[s] =>
              \A i \in DOMAIN handlers'[s] :
                  handlers'[s][i].user # currentUser'[s]]_vars

\* C22: a profile in memory belongs to the current identity: whenever the
\* profile of a session is not null, its current identity is not null and
\* the profile's uid is that identity's id.
C22_ProfileIsCurrentUsers ==
    \A s \in Sessions :
        userProfile[s] # Null =>
            /\ currentUser[s] # NoUser
            /\ UidOf(userProfile[s]) = currentUser[s]

\* C23: whenever loading is false and the session has a current identity,
\* no profile read or create for that identity is still in flight.
C23_NotLoadingMeansBootstrapped ==
    \A s \in Sessions :
        ~loading[s] /\ currentUser[s] # NoUser =>
            \A i \in DOMAIN handlers[s] : handlers[s][i].user # currentUser[s]

\* C24: when an updateUserProfile call completes successfully after another
\* call of the session for the same identity, with a partial of other
\* fields, has completed successfully while it was suspended, the stored
\* document and the in-memory profile hold the new value of every field of
\* both partials.
C24_ConcurrentUpdatesBothApply ==
    [][\A s \in Sessions, i \in Slots :
          UpdateResolve(s, i, TRUE) =>
              LET c == updates[s][i] IN
              \A k \in DOMAIN c.also :
                  (DOMAIN c.also[k]) \cap (DOMAIN c.data) = {} =>
                      \A f \in (DOMAIN c.also[k]) \cup (DOMAIN c.data) :
                          LET v == IF f \in DOMAIN c.data
                                   THEN c.data[f] ELSE c.also[k][f]
                          IN
                          /\ f \in DOMAIN userProfile'[s]
                          /\ userProfile'[s][f] = v
                          /\ f \in DOMAIN Data(users', c.uid)
                          /\ Data(users', c.uid)[f] = v]_vars

\* C25: a create write of a sign-in callback that arrives when a document
\* of the identity is already stored discards nothing of it: every stored
\* field other than createdAt keeps its value.
C25_CreateKeepsStoredFields ==
    [][\A s \in Sessions, i \in Slots :
          HandlerCreates(s, i) /\ Exists(users, handlers[s][i].user) =>
              LET u == handlers[s][i].user
                  old == Data(users, u)
              IN
              /\ Exists(users', u)
              /\ \A f \in (DOMAIN old) \ {"createdAt"} :
                    /\ f \in DOMAIN Data(users', u)
                    /\ Data(users', u)[f] = old[f]]_vars

\* C26: the postLikes collection never holds more than one record of a user
\* for a post.
C26_AtMostOneLikePerUser ==
    \A postId \in Ids, u \in Identities :
        Cardinality(LikesOf(postId, u)) <= 1

\* C28: in the step in which deletePost shows `Post Deleted`, the store holds
\* no comment of the deleted post.
C28_NoCommentsWhenPostDeleted ==
    [][\A i \in Ids :
          /\ ForumResolve(i, TRUE)
          /\ forumOps[i].op = "deletePost"
          /\ last'.toast = "Post Deleted"
          => CommentsOf(forumOps[i].postId)' = {}]_vars

\* C27: when every call succeeds, no likePost is in progress and no user
\* has liked a post twice, the likeCount of every stored post is the number
\* of like records of the post.
C27_LikeCountMatchesRecords ==
    /\ \A i \in DOMAIN forumOps : forumOps[i].op # "likePost"
    /\ \A postId \in Ids, u \in Identities : Cardinality(LikesOf(postId, u)) <= 1
    =>
        \A p \in forumPosts :
            p.likeCount = Cardinality({l \in postLikes : l.postId = p.id})

\* C29: on the profile page a submit closes edit mode and shows the page's
\* `Profile updated` toast exactly when the write of updateUserProfile
\* succeeded; when it failed, the failure toast is the only one shown and
\* the form stays in edit mode.
C29_SuccessToastOnlyOnSuccess ==
    [][\A s \in Sessions, i \in Slots :
          /\ UpdateResolve(s, i, TRUE) =>
                /\ last'.pageToast = "Profile updated"
                /\ last'.closedEdit
          /\ UpdateResolve(s, i, FALSE) =>
                /\ last'.toast = "Update Failed"
                /\ last'.pageToast = "none"
                /\ ~last'.closedEdit]_vars

\* C30: a signed-in user whose stored profile has isAdmin true is not sent
\* away from the admin page when opening it, neither when the stored
\* profile is in memory nor when the session has not resolved a profile yet.
C30_AdminIsNotRedirected ==
    [][\A s \in Sessions :
          /\ OpenAdminPage(s)
          /\ authUser[s] # NoUser
          /\ Exists(users, authUser[s])
          /\ RoleOf(Data(users, authUser[s]), "isAdmin")
          /\ userProfile[s] \in {Null, Data(users, authUser[s])}
          => last'.op # "adminRedirect"]_vars

=============================================================================
